---- MODULE Spec2Model ----
(***************************************************************************)
(* A state-machine model of SW::Logger::LogSystem (src/Logger/LogSystem.cpp *)
(* and LogSystem.hpp): the two static logger handles, the loggers and sinks *)
(* they own, the registry of the logging library, the logging entry points  *)
(* (generic PrepareAndPrint, the SW_ENGINE_* / SW_RUNTIME_* macros) and the *)
(* ASSERT / VERIFY macros.                                                  *)
(*                                                                          *)
(* Text is a sequence of tokens; the token "{}" is a replacement field of a *)
(* format string.  Objects created with make_shared live in two heaps       *)
(* (loggers, sinks), a sequence each; an object's id is its index.          *)
(***************************************************************************)
EXTENDS Integers, Sequences, FiniteSets, TLC

VARIABLES
    s_SystemLogger,  \* LogSystem::s_SystemLogger (EngineLogger in the header): NULL or a logger id
    s_AppLogger,     \* LogSystem::s_AppLogger (RuntimeLogger in the header): NULL or a logger id
    loggers,         \* heap of spdlog::logger objects
    sinks,           \* heap of sink objects, with what each has received and flushed
    registry,        \* the library's global registry: set of registered logger ids
    defines,         \* the build switches that are defined for this build
    traps,           \* number of DEBUG_BREAK() executed so far
    status,          \* "running", "halted" (stopped by a trap) or "undefined" (null handle dereferenced)
    ncalls,          \* number of calls made so far, of any kind
    nlogs,           \* number of logging, ASSERT and VERIFY calls among them
    lastOp,          \* the last call, its inputs and its effects in program order
    fcall,           \* the last call of FORMAT or of a generated formatter, with its result
    pc,              \* per thread: where it is in AddSystemSink / AddAppSink or in a logger call
    locked,          \* the sink mutexes that are held: pairs <<sink id, thread>>
    writing,         \* the writes to a sink that have begun and not ended: pairs <<sink id, thread>>
    modifying        \* the push_back calls that have begun and not ended: pairs <<logger id, thread>>

vars == <<s_SystemLogger, s_AppLogger, loggers, sinks, registry, defines, traps,
          status, ncalls, nlogs, lastOp, fcall, pc, locked, writing, modifying>>

\* What the formatting helpers and the threads add to the single-threaded state.
formatVars == <<fcall>>
threadVars == <<pc, locked, writing, modifying>>

\* ---------------------------------------------------------------- bounds
MaxCalls == 4   \* calls in one run, of any kind
MaxLogs == 1    \* logging, ASSERT and VERIFY calls among them

\* ---------------------------------------------------------------- inputs
NULL == 0

\* The specification handed to Initialize (the one of tests/test.cpp).
spec ==
    [ LogFileName              |-> "logs/SW.log",
      ConsoleSinkLoggerPattern |-> "%^[%T] [%n] [%l]: %v%$",
      FileSinkLoggerPattern    |-> "[%T] [%l] [%n] [%l]: %v",
      SystemLoggerName         |-> "SYSTEM",
      AppLoggerName            |-> "APP" ]

\* Sinks the caller creates itself and hands to AddSystemSink / AddAppSink.
UserSinkPatterns == <<"user">>

Switches == {"SW_LOGGER_DISABLE_ENGINE_LOGS", "SW_LOGGER_DISABLE_RUNTIME_LOGS",
             "SW_LOGGER_DISABLE_ASSERTS"}

LogTypes == {"SYSTEM", "APP"}

\* LogLevel of the generic entry point, in the order of the switch.
LogLevels == {"LOG_LEVEL_TRACE", "LOG_LEVEL_INFO", "LOG_LEVEL_WARN",
              "LOG_LEVEL_DEBUG", "LOG_LEVEL_ERROR", "LOG_LEVEL_FATAL"}

\* spdlog::level::level_enum, as used by the macros and by Initialize.
SpdLevels == {"trace", "debug", "info", "warn", "err", "critical"}

\* Format strings and argument lists of the calls that are explored:
\* SW_ENGINE_INFO("x={}", 5); ASSERT(ok, "x={}", 5) and ASSERT(v == V{}, "m", 5).
MacroCalls == { [fmt |-> <<"x=", "{}">>, args |-> <<5>>] }
CheckCalls == { [cond |-> <<"ok">>, fmt |-> <<"x=", "{}">>, args |-> <<5>>],
                [cond |-> <<"v == V", "{}">>, fmt |-> <<"m">>, args |-> <<5>>] }
Tags == { <<"[T] ">> }
Messages == { <<"m">> }

\* ---------------------------------------------------------------- text
RECURSIVE Placeholders(_)
Placeholders(f) ==
    IF f = <<>> THEN 0
    ELSE (IF Head(f) = "{}" THEN 1 ELSE 0) + Placeholders(Tail(f))

\* Default rendering of an argument.
Render(a) == ToString(a)

\* fmt / std::format: the i-th "{}" is replaced by the i-th argument, other
\* text is copied, surplus arguments are ignored.  A call whose format string
\* has more fields than arguments does not compile (checked format strings).
RECURSIVE Interpolate(_, _)
Interpolate(f, args) ==
    IF f = <<>> THEN <<>>
    ELSE IF Head(f) = "{}"
         THEN <<Render(Head(args))>> \o Interpolate(Tail(f), Tail(args))
         ELSE <<Head(f)>> \o Interpolate(Tail(f), args)

WellFormed(f, args) == Placeholders(f) <= Len(args)

\* s occurs in t as a contiguous run of tokens.
Contains(t, s) ==
    \E i \in 0..(Len(t) - Len(s)) : SubSeq(t, i + 1, i + Len(s)) = s

\* ---------------------------------------------------------------- levels
SpdRank(l) ==
    CASE l = "trace" -> 0 [] l = "debug" -> 1 [] l = "info" -> 2
      [] l = "warn" -> 3 [] l = "err" -> 4 [] l = "critical" -> 5

\* Variant: FATAL dispatched to the error call.
DispatchLevelFatalAsError(level) ==
    CASE level = "LOG_LEVEL_TRACE" -> "trace"
      [] level = "LOG_LEVEL_INFO"  -> "info"
      [] level = "LOG_LEVEL_WARN"  -> "warn"
      [] level = "LOG_LEVEL_DEBUG" -> "debug"
      [] level = "LOG_LEVEL_ERROR" -> "err"
      [] level = "LOG_LEVEL_FATAL" -> "err"

\* The switch of PrepareAndPrint: which library call each LogLevel reaches.
DispatchLevel(level) ==
    CASE level = "LOG_LEVEL_TRACE" -> "trace"
      [] level = "LOG_LEVEL_INFO"  -> "info"
      [] level = "LOG_LEVEL_WARN"  -> "warn"
      [] level = "LOG_LEVEL_DEBUG" -> "debug"
      [] level = "LOG_LEVEL_ERROR" -> "err"
      [] level = "LOG_LEVEL_FATAL" -> "critical"

\* ---------------------------------------------------------------- heaps
NewSink(kind, pattern) ==
    [kind |-> kind, pattern |-> pattern, written |-> <<>>, flushed |-> 0]

\* The level both loggers are given by Initialize (set_level).
InitialLevel == "trace"

\* Variant: flush only from err upwards.
InitialFlushLevelErr == "err"

\* The flush threshold both loggers are given by Initialize (flush_on).
InitialFlushLevel == "trace"

NewLogger(name, sinkIds) ==
    [name |-> name, sinks |-> sinkIds, level |-> InitialLevel,
     flush_level |-> InitialFlushLevel]

\* The library's registry starts with its own default logger (empty name).
DefaultLogger == [name |-> "", sinks |-> <<>>, level |-> "info", flush_level |-> "critical"]

\* Variant: a registry that accepts a name it already holds.
NameNeverRegistered(name) == FALSE

NameRegistered(name) == \E id \in registry : loggers[id].name = name

Occurrences(seq, x) == Cardinality({i \in DOMAIN seq : seq[i] = x})

Copies(x, n) == [i \in 1..n |-> x]

\* What a sink makes of a record: the record under the sink's own pattern.
Rendered(sink, logger, lvl, text) ==
    [pattern |-> sink.pattern, name |-> logger.name, level |-> lvl, text |-> text]

\* logger::log: filtered by the logger's level, handed to each sink of the
\* logger's list in order, then flushed when at or above the flush level.
ShouldLog(logger, lvl) == SpdRank(lvl) >= SpdRank(logger.level)

ShouldFlush(logger, lvl) == SpdRank(lvl) >= SpdRank(logger.flush_level)

SinkIt(sk, logger, lvl, text) ==
    [i \in DOMAIN sk |->
        LET n == Occurrences(logger.sinks, i)
            w == sk[i].written \o Copies(Rendered(sk[i], logger, lvl, text), n)
        IN IF n = 0 THEN sk[i]
           ELSE [sk[i] EXCEPT !.written = w,
                              !.flushed = IF ShouldFlush(logger, lvl) THEN Len(w) ELSE @]]

LoggerLog(sk, logger, lvl, text) ==
    IF ShouldLog(logger, lvl) THEN SinkIt(sk, logger, lvl, text) ELSE sk

\* ---------------------------------------------------------------- effects
Deref(handle) == [kind |-> "deref", handle |-> handle]
Record(id, lvl, text) == [kind |-> "record", logger |-> id, level |-> lvl, text |-> text]
Trap == [kind |-> "trap"]

RecordEffects(id, lvl, text) ==
    IF ShouldLog(loggers[id], lvl) THEN <<Record(id, lvl, text)>> ELSE <<>>

Running == status = "running"

\* The threads that call into LogSystem besides the one that initializes it.
Threads == {"t1", "t2"}

Idle == [at |-> "idle"]

\* ---------------------------------------------------------------- Init
Init ==
    /\ s_SystemLogger = NULL
    /\ s_AppLogger = NULL
    /\ loggers = <<DefaultLogger>>
    /\ sinks = [i \in DOMAIN UserSinkPatterns |-> NewSink("user", UserSinkPatterns[i])]
    /\ registry = {1}
    /\ defines \in SUBSET Switches
    /\ traps = 0
    /\ status = "running"
    /\ ncalls = 0
    /\ nlogs = 0
    /\ lastOp = [op |-> "none", outcome |-> "", effects |-> <<>>]
    /\ fcall = [op |-> "none"]
    /\ pc = [t \in Threads |-> Idle]
    /\ locked = {}
    /\ writing = {}
    /\ modifying = {}

UserSinks == DOMAIN UserSinkPatterns

\* ---------------------------------------------------------------- lifecycle
\* The sinks Initialize puts into logSinks: a console sink and a daily file
\* sink, each with its pattern; both loggers are built from this one vector.
LogSinks(base) == <<base + 1, base + 2>>

\* Variant: the app logger built from the first sink alone.
AppLogSinksConsoleTwice(base) == <<base + 1, base + 1>>

AppLogSinks(base) == LogSinks(base)

Initialize ==
    /\ Running /\ ncalls < MaxCalls
    /\ LET base    == Len(sinks)
           sinks1  == sinks \o <<NewSink("console", spec.ConsoleSinkLoggerPattern),
                                 NewSink("file", spec.FileSinkLoggerPattern)>>
           sysId   == Len(loggers) + 1
           appId   == Len(loggers) + 2
           sysL    == NewLogger(spec.SystemLoggerName, LogSinks(base))
           appL    == NewLogger(spec.AppLoggerName, AppLogSinks(base))
       IN /\ sinks' = sinks1
          /\ s_SystemLogger' = sysId
          /\ IF NameRegistered(spec.SystemLoggerName)
             THEN \* register_logger throws: nothing after line 42 runs
                  /\ loggers' = Append(loggers, sysL)
                  /\ UNCHANGED <<s_AppLogger, registry>>
                  /\ lastOp' = [op |-> "Initialize", outcome |-> "threw", effects |-> <<>>]
             ELSE IF NameRegistered(spec.AppLoggerName)
             THEN /\ loggers' = loggers \o <<sysL, appL>>
                  /\ s_AppLogger' = appId
                  /\ registry' = registry \cup {sysId}
                  /\ lastOp' = [op |-> "Initialize", outcome |-> "threw", effects |-> <<>>]
             ELSE /\ loggers' = loggers \o <<sysL, appL>>
                  /\ s_AppLogger' = appId
                  /\ registry' = registry \cup {sysId, appId}
                  /\ lastOp' = [op |-> "Initialize", outcome |-> "returned", effects |-> <<>>]
    /\ ncalls' = ncalls + 1
    /\ UNCHANGED <<defines, traps, status, nlogs, formatVars, threadVars>>

\* Variant: Shutdown that forgets drop_all().
DropAllForgotten(reg) == reg

\* drop_all(): the registry is emptied.
DropAll(reg) == {}

Shutdown ==
    /\ Running /\ ncalls < MaxCalls
    /\ s_SystemLogger' = NULL
    /\ s_AppLogger' = NULL
    /\ registry' = DropAll(registry)
    /\ lastOp' = [op |-> "Shutdown", outcome |-> "returned", effects |-> <<>>]
    /\ ncalls' = ncalls + 1
    /\ UNCHANGED <<loggers, sinks, defines, traps, status, nlogs, formatVars, threadVars>>

\* Variant: the sink inserted at the front of the list.
PushFront(list, sink) == <<sink>> \o list

\* s_XLogger->sinks().push_back(sink)
PushBack(list, sink) == Append(list, sink)

\* Variant: a null check in front of the dereference, returning early.
OnNullReturn == "running"

\* What becomes of the process when a null handle is dereferenced: no check
\* stands in front of any dereference, so the behaviour is undefined.
OnNull == "undefined"

AddSink(op, who, handle, sink) ==
    /\ Running /\ ncalls < MaxCalls
    /\ ncalls' = ncalls + 1
    /\ IF handle = NULL
       THEN /\ status' = OnNull
            /\ lastOp' = [op |-> op, sink |-> sink, outcome |-> OnNull,
                          effects |-> <<Deref(who)>>]
            /\ UNCHANGED loggers
       ELSE /\ loggers' = [loggers EXCEPT ![handle].sinks = PushBack(@, sink)]
            /\ lastOp' = [op |-> op, sink |-> sink, outcome |-> "returned",
                          effects |-> <<Deref(who)>>]
            /\ UNCHANGED status
    /\ UNCHANGED <<s_SystemLogger, s_AppLogger, sinks, registry, defines, traps, nlogs,
                   formatVars, threadVars>>

AddSystemSink == \E s \in UserSinks : AddSink("AddSystemSink", "SYSTEM", s_SystemLogger, s)

AddAppSink == \E s \in UserSinks : AddSink("AddAppSink", "APP", s_AppLogger, s)

\* ---------------------------------------------------------------- logging
Handle(who) == IF who = "SYSTEM" THEN s_SystemLogger ELSE s_AppLogger

\* One call of a level-specific library function on a handle, optionally
\* followed by DEBUG_BREAK().  A null handle is dereferenced all the same.
\* After a trap the process is stopped, or goes on under a debugger.
LogOn(who, lvl, text, trapAfter, call) ==
    LET handle == Handle(who) IN
    /\ Running /\ ncalls < MaxCalls /\ nlogs < MaxLogs
    /\ ncalls' = ncalls + 1
    /\ nlogs' = nlogs + 1
    /\ IF handle = NULL
       THEN /\ status' = OnNull
            /\ lastOp' = [call EXCEPT !.outcome = OnNull, !.effects = <<Deref(who)>>]
            /\ UNCHANGED <<sinks, traps>>
       ELSE /\ sinks' = LoggerLog(sinks, loggers[handle], lvl, text)
            /\ traps' = IF trapAfter THEN traps + 1 ELSE traps
            /\ status' \in (IF trapAfter THEN {"running", "halted"} ELSE {"running"})
            /\ lastOp' = [call EXCEPT !.outcome = "logged",
                                      !.effects = <<Deref(who)>> \o RecordEffects(handle, lvl, text)
                                                  \o (IF trapAfter THEN <<Trap>> ELSE <<>>)]
    /\ UNCHANGED <<s_SystemLogger, s_AppLogger, loggers, registry, defines,
                   formatVars, threadVars>>

\* A macro whose expansion is empty, or a check that passes: nothing happens.
NoEffect(call, outcome) ==
    /\ Running /\ ncalls < MaxCalls /\ nlogs < MaxLogs
    /\ ncalls' = ncalls + 1
    /\ nlogs' = nlogs + 1
    /\ lastOp' = [call EXCEPT !.outcome = outcome]
    /\ UNCHANGED <<s_SystemLogger, s_AppLogger, loggers, sinks, registry, defines,
                   traps, status, formatVars, threadVars>>

\* Variant: a separator put between tag and message.
PayloadSeparated(tag, message) == tag \o <<" ">> \o message

\* logger->xxx("{0}{1}", tag, message): the two arguments, one after the other.
Payload(tag, message) == tag \o message

\* DEBUG_BREAK() after a critical log call of the generic entry point or of a
\* *_CRITICAL macro: there is none (it is commented out in the header).
FatalTraps == FALSE

PrepareAndPrint ==
    \E type \in LogTypes, level \in LogLevels, tag \in Tags, message \in Messages :
        LET lvl  == DispatchLevel(level)
            text == Payload(tag, message)
        IN LogOn(type, lvl, text, FatalTraps /\ lvl = "critical",
                 [op |-> "PrepareAndPrint", who |-> type, level |-> level, tag |-> tag,
                  message |-> message, outcome |-> "", effects |-> <<>>])

\* The build switch that empties the macros of a channel.
DisableSwitch(who) ==
    IF who = "SYSTEM" THEN "SW_LOGGER_DISABLE_ENGINE_LOGS"
    ELSE "SW_LOGGER_DISABLE_RUNTIME_LOGS"

\* Variant: logging macros that ignore the build switches.
MacroNeverCompiledOut(who) == FALSE

MacroCompiledOut(who) == DisableSwitch(who) \in defines

\* SW_ENGINE_<LEVEL>(fmt, ...) / SW_RUNTIME_<LEVEL>(fmt, ...)
LogMacro(who, lvl, fmt, args) ==
    LET call == [op |-> "LogMacro", who |-> who, level |-> lvl, fmt |-> fmt,
                 args |-> args, outcome |-> "", effects |-> <<>>]
    IN IF MacroCompiledOut(who)
       THEN NoEffect(call, "compiled_out")
       ELSE LogOn(who, lvl, Interpolate(fmt, args), FatalTraps /\ lvl = "critical", call)

SW_ENGINE ==
    \E lvl \in SpdLevels, c \in MacroCalls :
        WellFormed(c.fmt, c.args) /\ LogMacro("SYSTEM", lvl, c.fmt, c.args)

SW_RUNTIME ==
    \E lvl \in SpdLevels, c \in MacroCalls :
        WellFormed(c.fmt, c.args) /\ LogMacro("APP", lvl, c.fmt, c.args)

\* ---------------------------------------------------------------- checks
\* "Assertion failed: (" #x ")\nMessage: " fmt : one string literal, which is
\* the format string of the log call.
AssertFormat(cond, fmt) == <<"Assertion failed: (">> \o cond \o <<")\nMessage: ">> \o fmt

\* Variant: ASSERT that ignores the build switch.
AssertsNeverCompiledOut == FALSE

AssertsCompiledOut == "SW_LOGGER_DISABLE_ASSERTS" \in defines

\* The body shared by ASSERT (when compiled in) and VERIFY.
Check(op, cond, value, fmt, args) ==
    LET call == [op |-> op, who |-> "SYSTEM", cond |-> cond, value |-> value, fmt |-> fmt,
                 args |-> args, outcome |-> "", effects |-> <<>>]
    IN IF value
       THEN NoEffect(call, "passed")
       ELSE LogOn("SYSTEM", "critical", Interpolate(AssertFormat(cond, fmt), args), TRUE, call)

ASSERT ==
    \E c \in CheckCalls, value \in BOOLEAN :
        /\ WellFormed(AssertFormat(c.cond, c.fmt), c.args)
        /\ IF AssertsCompiledOut
           THEN NoEffect([op |-> "ASSERT", who |-> "SYSTEM", cond |-> c.cond, value |-> value,
                          fmt |-> c.fmt, args |-> c.args, outcome |-> "", effects |-> <<>>],
                         "compiled_out")
           ELSE Check("ASSERT", c.cond, value, c.fmt, c.args)

VERIFY ==
    \E c \in CheckCalls, value \in BOOLEAN :
        /\ WellFormed(AssertFormat(c.cond, c.fmt), c.args)
        /\ Check("VERIFY", c.cond, value, c.fmt, c.args)

Next ==
    \/ Initialize
    \/ Shutdown
    \/ AddSystemSink
    \/ AddAppSink
    \/ PrepareAndPrint
    \/ SW_ENGINE
    \/ SW_RUNTIME
    \/ ASSERT
    \/ VERIFY

Spec == Init /\ [][Next]_vars

\* ---------------------------------------------------------------- formatting
\* FORMAT and the formatters generated by BEGIN_CAST_FORMATTER and
\* BEGIN_ADV_FORMATTER are functions of their arguments.  SpecFormat calls
\* them with inputs drawn from the sets below, before and after Initialize;
\* a behaviour follows one such call.
MaxFmtLen == 2    \* tokens of a format string (the example of the header apart)
MaxArgs == 3      \* arguments of a FORMAT call
MaxSpecLen == 2   \* characters of a format specifier

SeqsUpTo(S, n) == UNION { [1..k -> S] : k \in 0..n }

\* The example of the header: FORMAT("{} + {} = {}", 2, 3, 5).
FormatExample == <<"{}", " + ", "{}", " = ", "{}">>

FormatStrings == {FormatExample} \cup SeqsUpTo({"{}", "a"}, MaxFmtLen)

FormatArgs == SeqsUpTo({2, 3, 5}, MaxArgs)

\* The exception of the formatting library.
FormatError == [ok |-> FALSE, error |-> "format_error"]

\* Variant: the format string returned as it is.
FORMATUnformatted(str, args) == [ok |-> TRUE, text |-> str]

\* std::vformat(str, std::make_format_args(args...)): the format string is
\* read at run time; a field without an argument is a format_error.
FORMAT(str, args) ==
    IF Placeholders(str) <= Len(args)
    THEN [ok |-> TRUE, text |-> Interpolate(str, args)]
    ELSE FormatError

\* What a format_parse_context holds when parse is called: the specifier of
\* the replacement field and its closing brace ("{:>6}" gives > 6 }), or
\* nothing at all.
ParseContexts == {<<>>} \cup { fs \o <<"}">> : fs \in SeqsUpTo({">", "6", "s", "x"}, MaxSpecLen) }

\* Variant: a parse that accepts whatever it is given.
AdvParseLenient(ctx) == [ok |-> TRUE, pos |-> 0]

\* parse of BEGIN_ADV_FORMATTER: anything but the end or the closing brace
\* is "invalid format"; the position returned is the beginning.
AdvParse(ctx) ==
    IF ctx # <<>> /\ Head(ctx) # "}" THEN FormatError ELSE [ok |-> TRUE, pos |-> 0]

Aligns == {"<", ">", "^"}

WidthOf(c) == CASE c = "6" -> 6 [] c = "2" -> 2

\* A formatter<std::string> on which parse has not been called.
DefaultStringSpec == [ok |-> TRUE, pos |-> 0, align |-> "<", width |-> 0]

\* formatter<std::string>::parse: [align][width][s], then the closing brace.
StringParse(ctx) ==
    LET i1 == IF Len(ctx) >= 1 /\ ctx[1] \in Aligns THEN 2 ELSE 1
        i2 == IF Len(ctx) >= i1 /\ ctx[i1] \in {"2", "6"} THEN i1 + 1 ELSE i1
        i3 == IF Len(ctx) >= i2 /\ ctx[i2] = "s" THEN i2 + 1 ELSE i2
    IN IF Len(ctx) >= i3 /\ ctx[i3] # "}"
       THEN FormatError
       ELSE [ok |-> TRUE, pos |-> i3 - 1,
             align |-> IF i1 = 2 THEN ctx[1] ELSE "<",
             width |-> IF i2 > i1 THEN WidthOf(ctx[i1]) ELSE 0]

\* formatter<std::string>::format: the text, padded to the parsed width.
StringFormat(fs, str) ==
    LET n    == IF fs.width > Len(str) THEN fs.width - Len(str) ELSE 0
        left == CASE fs.align = "<" -> 0
                  [] fs.align = ">" -> n
                  [] fs.align = "^" -> n \div 2
    IN Copies(" ", left) \o str \o Copies(" ", n - left)

\* BEGIN_CAST_FORMATTER(T) derives formatter<T> from formatter<std::string>
\* and defines format only: parse is the inherited one.
CastParse(ctx) == StringParse(ctx)

\* std::filesystem::path values, and value.string().
Paths == { [pathname |-> <<"/", "a", "/", "b">>], [pathname |-> <<"a">>] }

String(path) == path.pathname

\* FORMATTER_CAST(std::string, value.string()): format called on a new
\* formatter<std::string>(), not on the formatter that parsed the specifier.
CastFormat(parsed, value) == StringFormat(DefaultStringSpec, String(value))

\* A float is a number of halves here (2 is 1.0, 3 is 1.5); its default
\* rendering is the shortest text that reads back as the same value.
Floats == {2, 3, 4, 6}

FloatText(h) ==
    IF h % 2 = 0 THEN <<ToString(h \div 2)>> ELSE <<ToString(h \div 2), ".", "5">>

Vec3s == [x : Floats, y : Floats, z : Floats]

\* What the output buffer of the context holds when format is called.
OutputsBefore == { <<>>, <<"This is a trace message ", "12", " / ">> }

\* *it++ = c on an output iterator of the context: the buffer grows by c.
Put(out, c) == Append(out, c)

\* Variant: a sub-field that is formatted but never reaches the buffer.
FORMATTER_FORMAT_Dropped(out, v) == out

\* FORMATTER_FORMAT(float, v): formatter<float, char>().format(v, ctx), which
\* writes through ctx.out(); that iterator and `it` append to the same buffer.
FORMATTER_FORMAT(out, v) == out \o FloatText(v)

\* format of the Vec3 formatter of tests/test.cpp, statement by statement,
\* and the `return it` of END_ADV_FORMATTER.
Vec3Format(out, value) ==
    LET s1 == Put(out, "[")
        s2 == FORMATTER_FORMAT(s1, value.x)
        s3 == Put(s2, ",")
        s4 == FORMATTER_FORMAT(s3, value.y)
        s5 == Put(s4, ",")
        s6 == FORMATTER_FORMAT(s5, value.z)
        s7 == Put(s6, "]")
    IN [out |-> s7, it |-> Len(s7)]

FormatFrame ==
    UNCHANGED <<s_SystemLogger, s_AppLogger, loggers, sinks, registry, defines, traps,
                status, ncalls, nlogs, lastOp, threadVars>>

\* auto s = FORMAT(str, args...);
CallFORMAT ==
    /\ Running /\ fcall.op = "none"
    /\ \E str \in FormatStrings, args \in FormatArgs :
          fcall' = [op |-> "FORMAT", str |-> str, args |-> args, result |-> FORMAT(str, args)]
    /\ FormatFrame

\* The parse step of a generated formatter, as the library calls it on a
\* replacement field for a value of the formatter's type.
FormatterParse ==
    /\ Running /\ fcall.op = "none"
    /\ \E family \in {"cast", "adv"}, ctx \in ParseContexts :
          fcall' = [op |-> "parse", family |-> family, ctx |-> ctx,
                    result |-> IF family = "cast" THEN CastParse(ctx) ELSE AdvParse(ctx)]
    /\ FormatFrame

\* Formatting a path with the formatter of tests/test.cpp: parse, then format.
FormatPath ==
    /\ Running /\ fcall.op = "none"
    /\ \E ctx \in ParseContexts, value \in Paths :
          /\ CastParse(ctx).ok
          /\ fcall' = [op |-> "format_path", ctx |-> ctx, value |-> value,
                       result |-> CastFormat(CastParse(ctx), value)]
    /\ FormatFrame

\* Formatting a Vec3 with the formatter of tests/test.cpp.
FormatVec3 ==
    /\ Running /\ fcall.op = "none"
    /\ \E out \in OutputsBefore, value \in Vec3s :
          fcall' = [op |-> "format_vec3", before |-> out, value |-> value,
                    result |-> Vec3Format(out, value)]
    /\ FormatFrame

\* Two levels handed to the generic entry point, and the ranks of the
\* library levels its switch selects for them.
DispatchPair ==
    /\ Running /\ fcall.op = "none"
    /\ \E a \in LogLevels, b \in LogLevels :
          fcall' = [op |-> "dispatch", a |-> a, b |-> b,
                    ra |-> SpdRank(DispatchLevel(a)), rb |-> SpdRank(DispatchLevel(b))]
    /\ FormatFrame

InitFormat == Init /\ defines = {}

NextFormat ==
    \/ Initialize
    \/ CallFORMAT
    \/ FormatterParse
    \/ FormatPath
    \/ FormatVec3
    \/ DispatchPair

SpecFormat == InitFormat /\ [][NextFormat]_vars

\* ---------------------------------------------------------------- threads
\* SpecThreads: one thread calls Initialize; then the threads of Threads call
\* the generic entry point and AddSystemSink / AddAppSink, one step of a call
\* at a time.  A logger call reads the logger's sink list (begin and end once,
\* then one element per sink), and hands the record to each sink under that
\* sink's mutex; AddSystemSink / AddAppSink run push_back on the same list
\* with no lock around it.  Reading the list while a push_back is running, or
\* going on with iterators taken before a push_back, is a data race: the
\* thread goes on with what it read, or the behaviour is undefined.
ThreadLevels == {"LOG_LEVEL_WARN"}

HandlesSet == s_SystemLogger # NULL /\ s_AppLogger # NULL

ThreadFrame ==
    UNCHANGED <<s_SystemLogger, s_AppLogger, registry, defines, traps, lastOp, formatVars>>

MainInitialize == s_SystemLogger = NULL /\ s_AppLogger = NULL /\ Initialize

\* Variant: sinks of the single-threaded kind, whose mutex is a null mutex.
MutexFreeSingleThreaded(s) == TRUE

\* stdout_color_sink_mt, daily_file_sink_mt: log and flush take the mutex of
\* the sink.
MutexFree(s) == \A u \in Threads : <<s, u>> \notin locked

\* A push_back on the sink list of logger h is running.
Modified(h) == \E u \in Threads : <<h, u>> \in modifying

\* What may come of thread t reading the sink list of logger h now.
ReadOutcomes(h, end) ==
    IF Modified(h) \/ Len(loggers[h].sinks) # end THEN {"running", OnNull} ELSE {"running"}

\* PrepareAndPrint up to the start of the loop over the logger's sinks.
BeginLog(t) ==
    /\ Running /\ ncalls < MaxCalls /\ HandlesSet
    /\ pc[t].at \in {"idle", "done"}
    /\ \E type \in LogTypes, level \in ThreadLevels, tag \in Tags :
          LET h    == Handle(type)
              lvl  == DispatchLevel(level)
              text == Payload(tag, <<t, ToString(ncalls)>>)
              call == [op |-> "log", logger |-> h, level |-> lvl, text |-> text,
                       idx |-> 1, end |-> Len(loggers[h].sinks)]
          IN /\ pc' = [pc EXCEPT ![t] =
                          IF ShouldLog(loggers[h], lvl)
                          THEN [at |-> "log"] @@ call
                          ELSE [at |-> "done"] @@ call]
             /\ status' \in ReadOutcomes(h, Len(loggers[h].sinks))
    /\ ncalls' = ncalls + 1
    /\ nlogs' = nlogs + 1
    /\ UNCHANGED <<loggers, sinks, locked, writing, modifying>>
    /\ ThreadFrame

\* sink->log(msg): the next sink is read from the list, its mutex is taken
\* and the write of the record begins.
SinkLock(t) ==
    /\ Running /\ pc[t].at = "log"
    /\ LET c == pc[t]
           s == loggers[c.logger].sinks[c.idx]
       IN /\ MutexFree(s)
          /\ locked' = locked \cup {<<s, t>>}
          /\ writing' = writing \cup {<<s, t>>}
          /\ pc' = [pc EXCEPT ![t] = [at |-> "write", sink |-> s] @@ c]
          /\ status' \in ReadOutcomes(c.logger, c.end)
    /\ UNCHANGED <<loggers, sinks, modifying, ncalls, nlogs>>
    /\ ThreadFrame

\* The record is in the sink; the mutex is released.  After the last sink
\* the logger flushes, when the level is at or above its flush level.
SinkWrite(t) ==
    /\ Running /\ pc[t].at = "write"
    /\ LET c == pc[t]
           s == c.sink
           l == loggers[c.logger]
       IN /\ sinks' = [sinks EXCEPT ![s].written = Append(@, Rendered(sinks[s], l, c.level, c.text))]
          /\ locked' = locked \ {<<s, t>>}
          /\ writing' = writing \ {<<s, t>>}
          /\ pc' = [pc EXCEPT ![t] =
                       IF c.idx < c.end THEN [c EXCEPT !.at = "log", !.idx = @ + 1]
                       ELSE IF ShouldFlush(l, c.level) THEN [c EXCEPT !.at = "flush", !.idx = 1]
                       ELSE [c EXCEPT !.at = "done"]]
    /\ UNCHANGED <<loggers, status, modifying, ncalls, nlogs>>
    /\ ThreadFrame

\* sink->flush(): the next sink is read from the list and flushed under its
\* mutex.
SinkFlush(t) ==
    /\ Running /\ pc[t].at = "flush"
    /\ LET c == pc[t]
           s == loggers[c.logger].sinks[c.idx]
       IN /\ MutexFree(s)
          /\ sinks' = [sinks EXCEPT ![s].flushed = Len(sinks[s].written)]
          /\ pc' = [pc EXCEPT ![t] =
                       IF c.idx < c.end THEN [c EXCEPT !.idx = @ + 1] ELSE [c EXCEPT !.at = "done"]]
          /\ status' \in ReadOutcomes(c.logger, c.end)
    /\ UNCHANGED <<loggers, locked, writing, modifying, ncalls, nlogs>>
    /\ ThreadFrame

\* AddSystemSink / AddAppSink on a thread: push_back on the list begins.
PushBegin(t) ==
    /\ Running /\ ncalls < MaxCalls /\ HandlesSet
    /\ pc[t].at \in {"idle", "done"}
    /\ \E who \in LogTypes, sink \in UserSinks :
          LET h == Handle(who) IN
          /\ pc' = [pc EXCEPT ![t] = [at |-> "push", op |-> "add", logger |-> h, sink |-> sink]]
          /\ modifying' = modifying \cup {<<h, t>>}
          /\ status' \in (IF Modified(h) THEN {"running", OnNull} ELSE {"running"})
    /\ ncalls' = ncalls + 1
    /\ UNCHANGED <<loggers, sinks, locked, writing, nlogs>>
    /\ ThreadFrame

\* push_back is over: the sink is at the end of the list.
PushEnd(t) ==
    /\ Running /\ pc[t].at = "push"
    /\ LET c == pc[t] IN
          /\ loggers' = [loggers EXCEPT ![c.logger].sinks = PushBack(@, c.sink)]
          /\ modifying' = modifying \ {<<c.logger, t>>}
          /\ pc' = [pc EXCEPT ![t] = [c EXCEPT !.at = "done"]]
    /\ UNCHANGED <<sinks, status, locked, writing, ncalls, nlogs>>
    /\ ThreadFrame

InitThreads == Init /\ defines = {}

NextThreads ==
    \/ MainInitialize
    \/ \E t \in Threads : BeginLog(t)
    \/ \E t \in Threads : SinkLock(t)
    \/ \E t \in Threads : SinkWrite(t)
    \/ \E t \in Threads : SinkFlush(t)
    \/ \E t \in Threads : PushBegin(t)
    \/ \E t \in Threads : PushEnd(t)

SpecThreads == InitThreads /\ [][NextThreads]_vars

\* ---------------------------------------------------------------- assertion report
\* LogSystem::ReportAssertionFailure, which hands its arguments to the
\* generic entry point PrintMessage.  SpecReport calls it between and outside
\* Initialize and Shutdown, for call sites on lines below and above 32767.
Expressions == { <<"x > 0">>, <<"v == V", "{}">> }

Files == {"test.cpp"}

\* Line numbers of the call site, as the 32-bit location holds them.
SiteLines == {44, 32767, 32768, 40000}

\* Conversion of a line number to the i16 parameter `line`: the value modulo
\* 2^16, read as a signed 16-bit integer.
Narrow16(n) ==
    LET m == n % 65536 IN IF m >= 32768 THEN m - 65536 ELSE m

\* The third argument ReportAssertionFailure gives to PrintMessage.
ReportFormat ==
    <<"Assertion Failure: ", "{}", ", message: '", "{}", "', in file: ", "{}",
      ", line: ", "{}", "\n">>

\* The generic entry point: (selector, level, tag, format string, args...).
\* The format string is interpolated with the arguments into one message,
\* and tag and message go to the level-matching call on the selected logger.
PrintMessage(type, level, tag, fmt, args, call) ==
    LET message == FORMAT(fmt, args) IN
    IF message.ok
    THEN LogOn(type, DispatchLevel(level), Payload(tag, message.text),
               FatalTraps /\ DispatchLevel(level) = "critical", call)
    ELSE NoEffect(call, "threw")

\* ReportAssertionFailure(expression, message, file, line): the arguments
\* after the level are passed on in the order of the source.
ReportAssertionFailure ==
    \E expression \in Expressions, message \in Messages, file \in Files, site \in SiteLines :
        LET line == Narrow16(site) IN
        PrintMessage("SYSTEM", "LOG_LEVEL_FATAL", ReportFormat, expression,
                     <<message, file, line>>,
                     [op |-> "ReportAssertionFailure", expression |-> expression,
                      message |-> message, file |-> file, site_line |-> site,
                      line |-> line, outcome |-> "", effects |-> <<>>])

InitReport == Init /\ defines = {}

NextReport ==
    \/ Initialize
    \/ Shutdown
    \/ AddSystemSink
    \/ ReportAssertionFailure

SpecReport == InitReport /\ [][NextReport]_vars

\* ================================================================ claims
Last(seq) == seq[Len(seq)]

IsPrefix(a, b) == Len(a) <= Len(b) /\ SubSeq(b, 1, Len(a)) = a

\* The handles as a successful Initialize leaves them, until Shutdown.
InWindow ==
    /\ s_SystemLogger # NULL /\ s_AppLogger # NULL
    /\ s_SystemLogger \in registry /\ s_AppLogger \in registry

\* What a logging call hands to the library: level and interpolated text.
LoggedLevel(call) ==
    CASE call.op = "PrepareAndPrint" -> DispatchLevel(call.level)
      [] call.op = "LogMacro" -> call.level
      [] OTHER -> "critical"

LoggedText(call) ==
    CASE call.op = "PrepareAndPrint" -> Payload(call.tag, call.message)
      [] call.op = "LogMacro" -> Interpolate(call.fmt, call.args)
      [] OTHER -> Interpolate(AssertFormat(call.cond, call.fmt), call.args)

\* The handle a call goes through, "none" for a call that is compiled out or
\* whose condition holds.
Dereferences(call) ==
    CASE call.op = "AddSystemSink" -> "SYSTEM"
      [] call.op = "AddAppSink" -> "APP"
      [] call.op = "PrepareAndPrint" -> call.who
      [] call.op = "LogMacro" ->
            IF call.who = "SYSTEM"
            THEN (IF "SW_LOGGER_DISABLE_ENGINE_LOGS" \in defines THEN "none" ELSE "SYSTEM")
            ELSE (IF "SW_LOGGER_DISABLE_RUNTIME_LOGS" \in defines THEN "none" ELSE "APP")
      [] call.op = "ASSERT" ->
            IF "SW_LOGGER_DISABLE_ASSERTS" \in defines \/ call.value THEN "none" ELSE "SYSTEM"
      [] call.op = "VERIFY" -> IF call.value THEN "none" ELSE "SYSTEM"
      [] OTHER -> "none"

Records(effects) == SelectSeq(effects, LAMBDA e : e.kind = "record")

\* C1: after Initialize returns, both handles are non-null and both loggers
\* are in the registry under their configured names; after Shutdown returns,
\* both handles are null and the registry holds no logger at all.
C1_HandlesAndRegistry ==
    /\ (lastOp.op = "Initialize" /\ lastOp.outcome = "returned") =>
          /\ s_SystemLogger # NULL /\ s_AppLogger # NULL
          /\ s_SystemLogger \in registry /\ s_AppLogger \in registry
          /\ loggers[s_SystemLogger].name = spec.SystemLoggerName
          /\ loggers[s_AppLogger].name = spec.AppLoggerName
    /\ lastOp.op = "Shutdown" =>
          /\ s_SystemLogger = NULL /\ s_AppLogger = NULL
          /\ registry = {}

\* Shutdown has returned after an Initialize had created the two loggers.
C1_Witness == lastOp.op = "Shutdown" /\ Len(loggers) >= 3

\* C2: a call that goes through a logger handle while that handle is null
\* (before Initialize or after Shutdown) is not guarded: it ends in the
\* undefined state, and it writes no record to any sink and sets no trap.
C2_NullHandleUnguarded ==
    [][ LET h == Dereferences(lastOp') IN
        (h # "none" /\ Handle(h) = NULL) =>
            /\ status' = "undefined"
            /\ lastOp'.outcome = "undefined"
            /\ Records(lastOp'.effects) = <<>>
            /\ sinks' = sinks
            /\ traps' = traps ]_vars

\* A macro used after Shutdown (loggers had been created, the handle is null).
C2_Witness ==
    /\ status = "undefined"
    /\ lastOp.op = "LogMacro"
    /\ Len(loggers) >= 3
    /\ Handle(lastOp.who) = NULL

\* C3: between Initialize and Shutdown both loggers hold the same console
\* sink and the same file sink, each with its own pattern, and every message
\* logged on either channel arrives at both with the text the call produced,
\* rendered under the console pattern in one and the file pattern in the other.
C3_DeliveredToSharedSinks ==
    InWindow =>
        LET sysL    == loggers[s_SystemLogger]
            appL    == loggers[s_AppLogger]
            console == sysL.sinks[1]
            file    == sysL.sinks[2]
        IN /\ appL.sinks[1] = console /\ appL.sinks[2] = file
           /\ console # file
           /\ sinks[console].kind = "console"
           /\ sinks[console].pattern = spec.ConsoleSinkLoggerPattern
           /\ sinks[file].kind = "file"
           /\ sinks[file].pattern = spec.FileSinkLoggerPattern
           /\ lastOp.outcome = "logged" =>
                LET L == loggers[Handle(lastOp.who)] IN
                /\ sinks[console].written # <<>>
                /\ Last(sinks[console].written) =
                       [pattern |-> spec.ConsoleSinkLoggerPattern, name |-> L.name,
                        level |-> LoggedLevel(lastOp), text |-> LoggedText(lastOp)]
                /\ sinks[file].written # <<>>
                /\ Last(sinks[file].written) =
                       [pattern |-> spec.FileSinkLoggerPattern, name |-> L.name,
                        level |-> LoggedLevel(lastOp), text |-> LoggedText(lastOp)]

\* A message logged on the app channel has reached the shared sinks.
C3_Witness ==
    /\ InWindow
    /\ lastOp.outcome = "logged"
    /\ lastOp.who = "APP"
    /\ Len(sinks[loggers[s_SystemLogger].sinks[2]].written) = 1

\* C4: both loggers have level and flush threshold trace, so a log call of
\* any level is never filtered: it yields a record, which every sink of that
\* logger has received and flushed when the call returns; no sink ever holds
\* an unflushed record between calls.
C4_NeverFilteredAlwaysFlushed ==
    /\ \A h \in {s_SystemLogger, s_AppLogger} \ {NULL} :
          loggers[h].level = "trace" /\ loggers[h].flush_level = "trace"
    /\ \A i \in DOMAIN sinks : sinks[i].flushed = Len(sinks[i].written)
    /\ lastOp.outcome = "logged" =>
          LET L == loggers[Handle(lastOp.who)] IN
          /\ Len(Records(lastOp.effects)) = 1
          /\ \A k \in DOMAIN L.sinks :
                /\ sinks[L.sinks[k]].written # <<>>
                /\ Last(sinks[L.sinks[k]].written).level = LoggedLevel(lastOp)
                /\ Last(sinks[L.sinks[k]].written).text = LoggedText(lastOp)
                /\ sinks[L.sinks[k]].flushed = Len(sinks[L.sinks[k]].written)

\* A trace-level call on a logger that also has an added sink.
C4_Witness ==
    /\ lastOp.outcome = "logged"
    /\ LoggedLevel(lastOp) = "trace"
    /\ Len(loggers[Handle(lastOp.who)].sinks) = 3
    /\ \A i \in UserSinks : Len(sinks[i].written) = 1

\* C5: AddSystemSink(s) appends s to the system logger's list and changes no
\* other logger, AddAppSink(s) likewise for the app logger; no step removes or
\* reorders a sink of any logger, and a handle's list always starts with the
\* console sink and the file sink; a log call on one channel gives its record
\* to exactly the added sinks that are in that channel's list.
C5_SinksOnlyAppended ==
    [][ /\ (lastOp'.op = "AddSystemSink" /\ lastOp'.outcome = "returned") =>
              /\ loggers'[s_SystemLogger].sinks =
                     Append(loggers[s_SystemLogger].sinks, lastOp'.sink)
              /\ \A id \in DOMAIN loggers \ {s_SystemLogger} : loggers'[id] = loggers[id]
        /\ (lastOp'.op = "AddAppSink" /\ lastOp'.outcome = "returned") =>
              /\ loggers'[s_AppLogger].sinks =
                     Append(loggers[s_AppLogger].sinks, lastOp'.sink)
              /\ \A id \in DOMAIN loggers \ {s_AppLogger} : loggers'[id] = loggers[id]
        /\ \A id \in DOMAIN loggers : IsPrefix(loggers[id].sinks, loggers'[id].sinks)
        /\ \A h \in {s_SystemLogger', s_AppLogger'} \ {NULL} :
              /\ sinks'[loggers'[h].sinks[1]].kind = "console"
              /\ sinks'[loggers'[h].sinks[2]].kind = "file"
        /\ lastOp'.outcome = "logged" =>
              \A u \in UserSinks :
                 LET L == loggers[Handle(lastOp'.who)] IN
                 IF \E k \in DOMAIN L.sinks : L.sinks[k] = u
                 THEN /\ Len(sinks'[u].written) > Len(sinks[u].written)
                      /\ IsPrefix(sinks[u].written, sinks'[u].written)
                      /\ \A k \in (Len(sinks[u].written) + 1)..Len(sinks'[u].written) :
                            /\ sinks'[u].written[k].name = L.name
                            /\ sinks'[u].written[k].text = LoggedText(lastOp')
                 ELSE sinks'[u].written = sinks[u].written ]_vars

\* A record logged on the system channel after a sink was added to it alone.
C5_Witness ==
    /\ InWindow
    /\ lastOp.outcome = "logged" /\ lastOp.who = "SYSTEM"
    /\ loggers[s_SystemLogger].sinks = <<loggers[s_SystemLogger].sinks[1],
                                         loggers[s_SystemLogger].sinks[2], 1>>
    /\ Len(loggers[s_AppLogger].sinks) = 2
    /\ Len(sinks[1].written) = 1

\* The record a failed check is meant to leave: one critical record on the
\* system logger whose text holds the condition as written and the message
\* with its arguments filled in, followed by one trap.
FailedCheckReported(call) ==
    /\ Len(call.effects) = 3
    /\ call.effects[1] = Deref("SYSTEM")
    /\ call.effects[2].kind = "record"
    /\ call.effects[2].logger = s_SystemLogger
    /\ call.effects[2].level = "critical"
    /\ Contains(call.effects[2].text, call.cond)
    /\ Contains(call.effects[2].text, Interpolate(call.fmt, call.args))
    /\ call.effects[3] = Trap

\* C6: with assertions enabled and the log system initialized, ASSERT with a
\* false condition leaves exactly one critical record on the system channel
\* that contains the text of the condition and the interpolated message, and
\* then exactly one trap; with a true condition it leaves no record, no trap.
C6_AssertReportsCondition ==
    (/\ lastOp.op = "ASSERT"
     /\ "SW_LOGGER_DISABLE_ASSERTS" \notin defines
     /\ lastOp.outcome \in {"logged", "passed"}) =>
        IF lastOp.value THEN lastOp.effects = <<>> ELSE FailedCheckReported(lastOp)

\* C7: with SW_LOGGER_DISABLE_ASSERTS defined, ASSERT changes nothing for any
\* condition value: no record, no trap, no use of a handle, also while the
\* handles are null.
C7_DisabledAssertIsEmpty ==
    [][ (lastOp'.op = "ASSERT" /\ "SW_LOGGER_DISABLE_ASSERTS" \in defines) =>
            /\ lastOp'.effects = <<>>
            /\ status' = "running"
            /\ UNCHANGED <<s_SystemLogger, s_AppLogger, loggers, sinks, registry, traps>> ]_vars

\* A failing ASSERT that is compiled out, used while the handle is null.
C7_Witness ==
    /\ lastOp.op = "ASSERT"
    /\ "SW_LOGGER_DISABLE_ASSERTS" \in defines
    /\ ~lastOp.value
    /\ s_SystemLogger = NULL
    /\ status = "running"

\* C8: VERIFY, whatever build switches are defined: with a false condition it
\* leaves exactly one critical record that contains the text of the condition
\* and the interpolated message, and then one trap; with a true condition it
\* leaves no record and no trap.
C8_VerifyReportsCondition ==
    (lastOp.op = "VERIFY" /\ lastOp.outcome \in {"logged", "passed"}) =>
        IF lastOp.value THEN lastOp.effects = <<>> ELSE FailedCheckReported(lastOp)

\* A log call at the fatal / critical level.
IsFatalCall(call) ==
    \/ call.op = "PrepareAndPrint" /\ call.level = "LOG_LEVEL_FATAL"
    \/ call.op = "LogMacro" /\ call.level = "critical"

\* C9: every log call at the fatal / critical level emits its record and, in
\* addition, sets off a debugger trap.
C9_FatalTraps ==
    (IsFatalCall(lastOp) /\ lastOp.outcome = "logged") =>
        /\ Len(Records(lastOp.effects)) = 1
        /\ \E k \in DOMAIN lastOp.effects : lastOp.effects[k] = Trap

\* A macro of the header: a logging macro, ASSERT or VERIFY.
IsHeaderMacro(call) == call.op \in {"LogMacro", "ASSERT", "VERIFY"}

Touches(call, who, id) ==
    \E k \in DOMAIN call.effects :
        \/ call.effects[k] = Deref(who)
        \/ call.effects[k].kind = "record" /\ call.effects[k].logger = id

\* C10 as stated: with SW_LOGGER_DISABLE_ENGINE_LOGS defined no macro of the
\* header uses the engine logger handle or emits a record on the engine
\* logger; with SW_LOGGER_DISABLE_RUNTIME_LOGS defined none uses the runtime
\* handle or emits a record on the runtime logger.
C10_NoMacroTouchesDisabledChannel ==
    IsHeaderMacro(lastOp) =>
        /\ "SW_LOGGER_DISABLE_ENGINE_LOGS" \in defines =>
              ~Touches(lastOp, "SYSTEM", s_SystemLogger)
        /\ "SW_LOGGER_DISABLE_RUNTIME_LOGS" \in defines =>
              ~Touches(lastOp, "APP", s_AppLogger)

\* C10, amended: a switch empties the logging macros of its own channel (they
\* change nothing and use no handle) and leaves the logging macros of the
\* other channel as they are (they use their handle and, when it is not null,
\* emit their record); no macro of the header ever uses the runtime logger
\* when its switch is defined; ASSERT (when compiled in) and VERIFY still use
\* the engine logger on a false condition when engine logs are disabled.
C10_SwitchesEmptyLoggingMacros ==
    [][ LET call == lastOp'
            off(who) == IF who = "SYSTEM" THEN "SW_LOGGER_DISABLE_ENGINE_LOGS" \in defines
                        ELSE "SW_LOGGER_DISABLE_RUNTIME_LOGS" \in defines
        IN
        /\ (call.op = "LogMacro" /\ off(call.who)) =>
              /\ call.effects = <<>>
              /\ status' = "running"
              /\ UNCHANGED <<s_SystemLogger, s_AppLogger, loggers, sinks, registry, traps>>
        /\ (call.op = "LogMacro" /\ ~off(call.who)) =>
              /\ call.effects[1] = Deref(call.who)
              /\ Handle(call.who) # NULL =>
                    /\ Len(call.effects) = 2
                    /\ call.effects[2] = Record(Handle(call.who), call.level,
                                                Interpolate(call.fmt, call.args))
                    /\ ~Touches(call, IF call.who = "SYSTEM" THEN "APP" ELSE "SYSTEM",
                                IF call.who = "SYSTEM" THEN s_AppLogger ELSE s_SystemLogger)
        /\ (IsHeaderMacro(call) /\ off("APP")) => ~Touches(call, "APP", s_AppLogger)
        /\ (/\ call.op \in {"ASSERT", "VERIFY"}
            /\ ~call.value
            /\ (call.op = "ASSERT" => "SW_LOGGER_DISABLE_ASSERTS" \notin defines)) =>
              /\ call.effects[1] = Deref("SYSTEM")
              /\ s_SystemLogger # NULL =>
                    /\ call.effects[2].kind = "record"
                    /\ call.effects[2].logger = s_SystemLogger
                    /\ sinks'[loggers[s_SystemLogger].sinks[1]].written #
                           sinks[loggers[s_SystemLogger].sinks[1]].written ]_vars

\* With engine logs disabled (and runtime logs not), an engine logging macro
\* was used while the log system was initialized, and expanded to nothing.
C10_Witness ==
    /\ "SW_LOGGER_DISABLE_ENGINE_LOGS" \in defines
    /\ "SW_LOGGER_DISABLE_RUNTIME_LOGS" \notin defines
    /\ InWindow
    /\ lastOp.op = "LogMacro" /\ lastOp.who = "SYSTEM"
    /\ lastOp.outcome = "compiled_out"

\* The library level the claim pairs with each level of the generic entry point.
MatchingLevel(level) ==
    CASE level = "LOG_LEVEL_TRACE" -> "trace"
      [] level = "LOG_LEVEL_INFO"  -> "info"
      [] level = "LOG_LEVEL_WARN"  -> "warn"
      [] level = "LOG_LEVEL_DEBUG" -> "debug"
      [] level = "LOG_LEVEL_ERROR" -> "err"
      [] level = "LOG_LEVEL_FATAL" -> "critical"

\* C17: PrepareAndPrint(type, level, tag, message), with a non-null handle,
\* emits exactly one record, on the system logger when type is SYSTEM and on
\* the app logger otherwise, at the library level matching the given level,
\* with the text tag immediately followed by message; every sink of the
\* selected logger's list gets one more entry, which bears that logger's name,
\* and every other sink is unchanged.
C17_GenericEntryPoint ==
    [][ (lastOp'.op = "PrepareAndPrint" /\ Handle(lastOp'.who) # NULL) =>
            LET call == lastOp'
                h    == IF call.who = "SYSTEM" THEN s_SystemLogger ELSE s_AppLogger
                text == call.tag \o call.message
                lvl  == MatchingLevel(call.level)
            IN /\ Records(call.effects) = <<Record(h, lvl, text)>>
               /\ \A i \in DOMAIN sinks :
                     IF \E k \in DOMAIN loggers[h].sinks : loggers[h].sinks[k] = i
                     THEN /\ Len(sinks'[i].written) =
                                Len(sinks[i].written) + Occurrences(loggers[h].sinks, i)
                          /\ IsPrefix(sinks[i].written, sinks'[i].written)
                          /\ Last(sinks'[i].written) =
                                [pattern |-> sinks[i].pattern, name |-> loggers[h].name,
                                 level |-> lvl, text |-> text]
                     ELSE sinks'[i] = sinks[i] ]_vars

\* A warn-level call on the app channel while a sink is in the system list alone.
C17_Witness ==
    /\ lastOp.op = "PrepareAndPrint" /\ lastOp.outcome = "logged"
    /\ lastOp.who = "APP" /\ lastOp.level = "LOG_LEVEL_WARN"
    /\ Len(loggers[s_SystemLogger].sinks) = 3
    /\ sinks[1].written = <<>>

\* C19: an Initialize made while both handles are null (at the start, or after
\* a Shutdown) returns and leaves both handles non-null and registered, each
\* logger with exactly a console sink and a file sink that are new and empty;
\* Shutdown leaves both handles null; no other call changes a handle.
C19_LifecycleRepeats ==
    [][ /\ (lastOp'.op = "Initialize" /\ s_SystemLogger = NULL /\ s_AppLogger = NULL) =>
              /\ lastOp'.outcome = "returned"
              /\ s_SystemLogger' # NULL /\ s_AppLogger' # NULL
              /\ s_SystemLogger' \notin DOMAIN loggers /\ s_AppLogger' \notin DOMAIN loggers
              /\ {s_SystemLogger', s_AppLogger'} \subseteq registry'
              /\ \A h \in {s_SystemLogger', s_AppLogger'} :
                    /\ Len(loggers'[h].sinks) = 2
                    /\ \A k \in 1..2 :
                          /\ loggers'[h].sinks[k] \notin DOMAIN sinks
                          /\ sinks'[loggers'[h].sinks[k]].written = <<>>
                    /\ sinks'[loggers'[h].sinks[1]].kind = "console"
                    /\ sinks'[loggers'[h].sinks[2]].kind = "file"
        /\ lastOp'.op = "Shutdown" => s_SystemLogger' = NULL /\ s_AppLogger' = NULL
        /\ lastOp'.op \notin {"Initialize", "Shutdown"} =>
              UNCHANGED <<s_SystemLogger, s_AppLogger>> ]_vars

\* The second Initialize of Initialize, AddSystemSink, Shutdown, Initialize.
C19_Witness ==
    /\ lastOp.op = "Initialize" /\ lastOp.outcome = "returned"
    /\ Len(loggers) = 5
    /\ Len(loggers[2].sinks) = 3
    /\ Len(loggers[s_SystemLogger].sinks) = 2

\* C20: an Initialize made while the loggers of an earlier Initialize are
\* still registered fails on registering the new system logger: the registry
\* is unchanged, the system handle already refers to the new, unregistered
\* logger, which has only its own two new sinks, and the app handle still
\* refers to the logger of the first call.
C20_SecondInitializeFails ==
    [][ (lastOp'.op = "Initialize" /\ InWindow) =>
            /\ lastOp'.outcome = "threw"
            /\ registry' = registry
            /\ s_SystemLogger' # s_SystemLogger
            /\ s_SystemLogger' \notin DOMAIN loggers
            /\ s_SystemLogger' \notin registry'
            /\ s_SystemLogger \in registry'
            /\ loggers'[s_SystemLogger] = loggers[s_SystemLogger]
            /\ Len(loggers'[s_SystemLogger'].sinks) = 2
            /\ \A k \in 1..2 : loggers'[s_SystemLogger'].sinks[k] \notin DOMAIN sinks
            /\ s_AppLogger' = s_AppLogger ]_vars

\* Initialize, AddSystemSink, Initialize: the added sink is in the old list only.
C20_Witness ==
    /\ lastOp.op = "Initialize" /\ lastOp.outcome = "threw"
    /\ s_SystemLogger = 4 /\ s_AppLogger = 3
    /\ Len(loggers[2].sinks) = 3
    /\ Len(loggers[4].sinks) = 2

\* The format specifier that a parse context holds is empty.
EmptySpecifier(ctx) == ctx = <<>> \/ Head(ctx) = "}"

\* The parse contexts whose specifier is one a string may be formatted with.
StringSpecifiers ==
    { a \o w \o t \o <<"}">> : a \in {<<>>, <<"<">>, <<">">>, <<"^">>},
                               w \in {<<>>, <<"2">>, <<"6">>},
                               t \in {<<>>, <<"s">>} }

\* C13 as stated: the parse step of every formatter macro family accepts the
\* empty format specifier and fails with a format error for every non-empty
\* one.
C13_ParseRejectsEveryNonEmpty ==
    fcall.op = "parse" => (fcall.result.ok <=> EmptySpecifier(fcall.ctx))

\* C13, amended: the parse step generated by BEGIN_ADV_FORMATTER accepts the
\* empty specifier and fails with a format error for every non-empty one; the
\* formatter generated by BEGIN_CAST_FORMATTER has the parse step of the
\* string formatter, which accepts the empty specifier and every specifier
\* valid for a string, and fails with a format error for any other.
C13_ParseByFamily ==
    fcall.op = "parse" =>
        /\ EmptySpecifier(fcall.ctx) => fcall.result.ok
        /\ fcall.family = "adv" => (fcall.result.ok <=> EmptySpecifier(fcall.ctx))
        /\ fcall.family = "cast" =>
              (fcall.result.ok <=> (fcall.ctx = <<>> \/ fcall.ctx \in StringSpecifiers))
        /\ ~fcall.result.ok => fcall.result = [ok |-> FALSE, error |-> "format_error"]

\* The cast formatter accepts "{:>6}"; the iterator formatter rejects it.
C13_Witness ==
    /\ fcall.op = "parse" /\ fcall.family = "cast"
    /\ fcall.ctx = <<">", "6", "}">> /\ fcall.result.ok
    /\ ~AdvParse(fcall.ctx).ok

\* C14: formatting a value v with the formatter generated by the cast macro
\* gives the same output as formatting the converted value c(v) with the
\* string formatter, for every value and every format specifier the generated
\* formatter accepts.
C14_CastEqualsStringFormat ==
    fcall.op = "format_path" =>
        fcall.result = StringFormat(StringParse(fcall.ctx), String(fcall.value))

\* C15: the formatter generated with the iterator macro for Vec3 appends
\* '[' x ',' y ',' z ']' to what the output held, in this order and with
\* nothing else, and returns the position after the last write; (1.0, 2.0,
\* 3.0) gives [1,2,3].
C15_IteratorFormatterOutput ==
    fcall.op = "format_vec3" =>
        LET v == fcall.value
            r == fcall.result
        IN /\ r.out = fcall.before \o <<"[">> \o FloatText(v.x) \o <<",">> \o FloatText(v.y)
                                   \o <<",">> \o FloatText(v.z) \o <<"]">>
           /\ r.it = Len(r.out)
           /\ (v = [x |-> 2, y |-> 4, z |-> 6] /\ fcall.before = <<>>) =>
                 r.out = <<"[", "1", ",", "2", ",", "3", "]">>

\* Vec3{1.0f, 2.0f, 3.0f} formatted after "This is a trace message 12 / ".
C15_Witness ==
    /\ fcall.op = "format_vec3"
    /\ fcall.value = [x |-> 2, y |-> 4, z |-> 6]
    /\ Len(fcall.before) = 3
    /\ SubSeq(fcall.result.out, 4, 10) = <<"[", "1", ",", "2", ",", "3", "]">>
    /\ fcall.result.it = 10

\* C16: FORMAT(str, args...), given an argument for every "{}", returns str
\* with its i-th "{}" replaced by the default rendering of the i-th argument
\* and all other text unchanged (FORMAT("{} + {} = {}", 2, 3, 5) is
\* "2 + 3 = 5"), and changes neither the logger handles nor any logger,
\* sink or registration.
C16_FormatInterpolates ==
    [][ (fcall'.op = "FORMAT" /\ fcall' # fcall) =>
            LET str  == fcall'.str
                args == fcall'.args
                r    == fcall'.result
            IN /\ Placeholders(str) <= Len(args) =>
                     /\ r.ok
                     /\ Len(r.text) = Len(str)
                     /\ \A k \in DOMAIN str :
                           r.text[k] = IF str[k] = "{}"
                                       THEN ToString(args[Placeholders(SubSeq(str, 1, k))])
                                       ELSE str[k]
               /\ (str = <<"{}", " + ", "{}", " = ", "{}">> /\ args = <<2, 3, 5>>) =>
                     r.text = <<"2", " + ", "3", " = ", "5">>
               /\ UNCHANGED <<s_SystemLogger, s_AppLogger, loggers, sinks, registry>> ]_vars

\* The example of the header, evaluated between Initialize and Shutdown.
C16_Witness ==
    /\ fcall.op = "FORMAT"
    /\ fcall.str = <<"{}", " + ", "{}", " = ", "{}">> /\ fcall.args = <<2, 3, 5>>
    /\ fcall.result.text = <<"2", " + ", "3", " = ", "5">>
    /\ s_SystemLogger # NULL /\ s_AppLogger # NULL

\* The order of the six levels that C18 states.
StatedRank(level) ==
    CASE level = "LOG_LEVEL_TRACE" -> 1
      [] level = "LOG_LEVEL_INFO"  -> 2
      [] level = "LOG_LEVEL_DEBUG" -> 3
      [] level = "LOG_LEVEL_WARN"  -> 4
      [] level = "LOG_LEVEL_ERROR" -> 5
      [] level = "LOG_LEVEL_FATAL" -> 6

\* C18 as stated: with the levels ordered trace < info < debug < warn < error
\* < fatal, whenever level a is below level b the library level a is
\* dispatched to is strictly below the one b is dispatched to.
C18_DispatchPreservesStatedOrder ==
    (fcall.op = "dispatch" /\ StatedRank(fcall.a) < StatedRank(fcall.b)) =>
        fcall.ra < fcall.rb

\* C18, amended: each level is dispatched to the library level of the same
\* name (fatal to critical), and the library orders its levels trace < debug
\* < info < warn < err < critical; so for levels ordered trace < info < debug
\* < warn < error < fatal the dispatch preserves the order of every pair
\* except (info, debug), which it reverses: info is dispatched strictly above
\* debug.
C18_DispatchOrder ==
    (fcall.op = "dispatch" /\ StatedRank(fcall.a) < StatedRank(fcall.b)) =>
        IF fcall.a = "LOG_LEVEL_INFO" /\ fcall.b = "LOG_LEVEL_DEBUG"
        THEN fcall.rb < fcall.ra
        ELSE fcall.ra < fcall.rb

\* info and debug, the pair whose order the library reverses.
C18_Witness ==
    /\ fcall.op = "dispatch"
    /\ fcall.a = "LOG_LEVEL_INFO" /\ fcall.b = "LOG_LEVEL_DEBUG"
    /\ fcall.rb < fcall.ra

\* Thread t is inside the loop of a logger call over the logger's sink list.
Iterating(t) == pc[t].at \in {"log", "write", "flush"}

\* C11: while a thread is logging on a logger, the logger's sink list is
\* never inside a push_back of AddSystemSink / AddAppSink and is the list the
\* logging thread started with: the thread iterates the complete list from
\* before the append or the complete list from after it.
C11_SinkListMutuallyExcluded ==
    \A t \in Threads :
        Iterating(t) =>
            /\ ~Modified(pc[t].logger)
            /\ Len(loggers[pc[t].logger].sinks) = pc[t].end

\* The number of records with the given text that a sink holds.
Holds(s, text) == Cardinality({ i \in DOMAIN sinks[s].written : sinks[s].written[i].text = text })

\* C12: when threads log concurrently on the same channel or on the two
\* channels, at most one write to a sink is under way at any time, and a
\* finished logger call has left its record exactly once in each sink of the
\* logger's list; a call under way has left it once in the sinks it is done
\* with and not yet in the others.
C12_WholeRecordsExactlyOnce ==
    /\ \A s \in DOMAIN sinks : Cardinality({ t \in Threads : <<s, t>> \in writing }) <= 1
    /\ \A t \in Threads :
          (pc[t].at # "idle" /\ pc[t].op = "log") =>
              LET c    == pc[t]
                  list == SubSeq(loggers[c.logger].sinks, 1, c.end)
                  done == IF c.at \in {"flush", "done"} THEN c.end ELSE c.idx - 1
              IN \A s \in DOMAIN sinks :
                    Holds(s, c.text) = Occurrences(SubSeq(list, 1, done), s)

\* Both threads have logged, one on each channel, and the two shared sinks
\* hold the two records in opposite orders.
C12_Witness ==
    /\ \A t \in Threads : pc[t].at = "done" /\ pc[t].op = "log"
    /\ pc["t1"].logger # pc["t2"].logger
    /\ Len(sinks[2].written) = 2 /\ Len(sinks[3].written) = 2
    /\ sinks[2].written[1].text = sinks[3].written[2].text
    /\ sinks[2].written[1].name # sinks[2].written[2].name

\* C21: ReportAssertionFailure(expression, message, file, line), with a
\* non-null system handle, emits exactly one critical record on the system
\* logger whose text contains the expression, the message, the file and the
\* line number of the call site, and the line it reports is the line of the
\* call site for every line number, those above 32767 included.
C21_ReportsCallSiteLine ==
    (lastOp.op = "ReportAssertionFailure" /\ lastOp.outcome = "logged") =>
        LET rs == Records(lastOp.effects) IN
        /\ Len(rs) = 1
        /\ rs[1].logger = s_SystemLogger
        /\ rs[1].level = "critical"
        /\ Contains(rs[1].text, lastOp.expression)
        /\ Contains(rs[1].text, lastOp.message)
        /\ Contains(rs[1].text, <<lastOp.file>>)
        /\ Contains(rs[1].text, <<ToString(lastOp.site_line)>>)
        /\ lastOp.line = lastOp.site_line
====
